---- MODULE Spec2Model ----
(***************************************************************************)
(* Model of templates/rust/src/main.rs: the greeting function hello, the   *)
(* addition function add, and the entry point main.                        *)
(*                                                                         *)
(* Text is a sequence of one-character strings, so that concatenation,     *)
(* length and slicing are those of the text and not of an opaque token.    *)
(* An i32 is an integer of [I32_MIN, I32_MAX]; the arithmetic of add is    *)
(* two's complement on 32 bits, with the build's overflow checks either    *)
(* enabled (debug profile) or disabled (release profile).                  *)
(*                                                                         *)
(* Environment assumption: memory allocation and the write to standard     *)
(* output succeed (the program runs with a writable standard output).      *)
(***************************************************************************)
EXTENDS Integers, Sequences, FiniteSets, TLC

VARIABLES
    overflowChecks, \* build profile: TRUE = overflow checks on (debug), FALSE = off (release)
    name,           \* the &str argument a caller passes to hello
    a, b,           \* the i32 arguments a caller passes to add
    helloRet,       \* outcome of the caller's hello(name)
    addRet,         \* outcome of the caller's add(a, b)
    pc,             \* position of main: "start", "print", "return", "exited"
    greeting,       \* the temporary String main holds between hello and println!
    stdout,         \* every character written to standard output so far
    exitStatus      \* process exit status of the program run, -1 while running

vars == <<overflowChecks, name, a, b, helloRet, addRet, pc, greeting, stdout, exitStatus>>

----------------------------------------------------------------------------
(* Bounds of the explored inputs *)

MaxNameLen == 2
Near == 1

(* i32 *)
I32_MAX == 2147483647
I32_MIN == -I32_MAX - 1

----------------------------------------------------------------------------
(* Text literals of the source *)

NL == "\n"
HelloFmt == <<"H", "e", "l", "l", "o", ",", " ", "{", "}", "!">>
PrintlnFmt == <<"{", "}", NL>>
MainLiteral_Placeholder ==
    <<"R", "u", "s", "t", "-", "e", "q", "u", "i", "v", "a", "l", "e", "n", "t", " ",
      "p", "l", "a", "c", "e", "h", "o", "l", "d", "e", "r">>
MainLiteral == <<"R", "u", "s", "t">>
World == <<"W", "o", "r", "l", "d">>

(* Inputs *)
Alphabet == {"a", "!"}

RECURSIVE Texts(_)
Texts(n) ==
    IF n = 0 THEN {<< >>}
    ELSE LET S == Texts(n - 1)
         IN  S \cup {Append(s, c) : s \in {t \in S : Len(t) = n - 1}, c \in Alphabet}

Names ==
    Texts(MaxNameLen)
        \cup {World, MainLiteral, <<"{", "}">>,
              <<"H", "e", "l", "l", "o", ",", " ">>,
              <<"H", "e", "l", "l", "o", ",", " ", "!">>}

I32Inputs ==
    {I32_MIN + k : k \in 0 .. Near} \cup (-Near .. Near) \cup {I32_MAX - k : k \in 0 .. Near}
        \cup {2, 3}

----------------------------------------------------------------------------
(* Outcomes of a call *)

NotCalled == [kind |-> "none", v |-> << >>]
Value(x) == [kind |-> "value", v |-> x]
Panic == [kind |-> "panic", v |-> << >>]

----------------------------------------------------------------------------
(* format!: the template is scanned left to right; each "{}" is replaced   *)
(* by the Display of the next argument (for &str and String: the text      *)
(* itself, not scanned again), every other character is copied.            *)

RECURSIVE Format(_, _)
Format(fmt, args) ==
    IF fmt = << >> THEN << >>
    ELSE IF Len(fmt) >= 2 /\ fmt[1] = "{" /\ fmt[2] = "}"
         THEN Head(args) \o Format(SubSeq(fmt, 3, Len(fmt)), Tail(args))
         ELSE <<fmt[1]>> \o Format(Tail(fmt), args)

(* fn hello(name: &str) -> String *)
hello_NoBang(n) == Value(Format(SubSeq(HelloFmt, 1, Len(HelloFmt) - 1), <<n>>))
hello_Trimmed(n) == Value(Format(HelloFmt, <<SelectSeq(n, LAMBDA c : c # "!")>>))
hello(n) == Value(Format(HelloFmt, <<n>>))

----------------------------------------------------------------------------
(* i32 addition.  The sum of two i32 leaves the range only when both have  *)
(* the same sign; the wrapped result is then the sum less (or plus) 2^32,  *)
(* computed without leaving the range.                                     *)

Overflows(x, y) ==
    \/ x >= 0 /\ y >= 0 /\ x > I32_MAX - y
    \/ x < 0 /\ y < 0 /\ x < I32_MIN - y

WrappingAdd(x, y) ==
    IF x >= 0 /\ y >= 0 /\ x > I32_MAX - y THEN (x + I32_MIN) + (y + I32_MIN)
    ELSE IF x < 0 /\ y < 0 /\ x < I32_MIN - y THEN (x - I32_MIN) + (y - I32_MIN)
    ELSE x + y

SaturatingAdd(x, y) ==
    IF x >= 0 /\ y >= 0 /\ x > I32_MAX - y THEN I32_MAX
    ELSE IF x < 0 /\ y < 0 /\ x < I32_MIN - y THEN I32_MIN
    ELSE x + y

(* fn add(a: i32, b: i32) -> i32 *)
add_First(x, y) ==
    IF Overflows(x, y) THEN (IF overflowChecks THEN Panic ELSE Value(WrappingAdd(x, y)))
    ELSE Value(x)
add_Saturating(x, y) ==
    IF overflowChecks /\ Overflows(x, y) THEN Panic ELSE Value(SaturatingAdd(x, y))
add_AlwaysChecked(x, y) ==
    IF Overflows(x, y) THEN Panic ELSE Value(WrappingAdd(x, y))
add(x, y) ==
    IF overflowChecks /\ Overflows(x, y) THEN Panic ELSE Value(WrappingAdd(x, y))

----------------------------------------------------------------------------
Init ==
    /\ overflowChecks \in BOOLEAN
    /\ name \in Names
    /\ a \in I32Inputs
    /\ b \in I32Inputs
    /\ helloRet = NotCalled
    /\ addRet = NotCalled
    /\ pc = "start"
    /\ greeting = << >>
    /\ stdout = << >>
    /\ exitStatus = -1

(* A caller (the tests module) calls hello(name) *)
CallHello_Printing ==
    /\ helloRet = NotCalled
    /\ helloRet' = hello(name)
    /\ stdout' = stdout \o hello(name).v
    /\ UNCHANGED <<overflowChecks, name, a, b, addRet, pc, greeting, exitStatus>>
CallHello ==
    /\ helloRet = NotCalled
    /\ helloRet' = hello(name)
    /\ UNCHANGED <<overflowChecks, name, a, b, addRet, pc, greeting, stdout, exitStatus>>

(* A caller (the tests module) calls add(a, b) *)
CallAdd ==
    /\ addRet = NotCalled
    /\ addRet' = add(a, b)
    /\ UNCHANGED <<overflowChecks, name, a, b, helloRet, pc, greeting, stdout, exitStatus>>

(* main: evaluates the argument hello("Rust") *)
MainCallHello_Raw ==
    /\ pc = "start"
    /\ greeting' = MainLiteral
    /\ pc' = "print"
    /\ UNCHANGED <<overflowChecks, name, a, b, helloRet, addRet, stdout, exitStatus>>
MainCallHello ==
    /\ pc = "start"
    /\ greeting' = hello(MainLiteral).v
    /\ pc' = "print"
    /\ UNCHANGED <<overflowChecks, name, a, b, helloRet, addRet, stdout, exitStatus>>

(* main: println!("{}", <greeting>) *)
MainPrintln_NoNewline ==
    /\ pc = "print"
    /\ stdout' = stdout \o Format(<<"{", "}">>, <<greeting>>)
    /\ pc' = "return"
    /\ UNCHANGED <<overflowChecks, name, a, b, helloRet, addRet, greeting, exitStatus>>
MainPrintln ==
    /\ pc = "print"
    /\ stdout' = stdout \o Format(PrintlnFmt, <<greeting>>)
    /\ pc' = "return"
    /\ UNCHANGED <<overflowChecks, name, a, b, helloRet, addRet, greeting, exitStatus>>

(* main returns (): the runtime exits with status 0 *)
MainReturn ==
    /\ pc = "return"
    /\ exitStatus' = 0
    /\ pc' = "exited"
    /\ UNCHANGED <<overflowChecks, name, a, b, helloRet, addRet, greeting, stdout>>

Main == MainCallHello \/ MainPrintln \/ MainReturn

Next ==
    \/ CallHello
    \/ CallAdd
    \/ MainCallHello
    \/ MainPrintln
    \/ MainReturn

Spec == Init /\ [][Next]_vars

(* main runs to completion on its thread: no step of it is postponed forever *)
LiveSpec == Spec /\ WF_vars(Main)

----------------------------------------------------------------------------
(* Vocabulary of the properties.                                           *)
(*                                                                         *)
(* The mathematical sum of two i32 needs 33 bits.  It is held exactly as a *)
(* pair of 16-bit limbs <<hi, lo>> standing for hi * 2^16 + lo, with       *)
(* 0 <= lo < 2^16; an i32 has -2^15 <= hi < 2^15.                          *)

Limb == 2 ^ 16
HalfLimb == 2 ^ 15
Wide(x) == [hi |-> x \div Limb, lo |-> x % Limb]
MathSum(x, y) ==
    LET lo == (x % Limb) + (y % Limb)
    IN  [hi |-> (x \div Limb) + (y \div Limb) + (lo \div Limb), lo |-> lo % Limb]
SumInRange(x, y) == MathSum(x, y).hi \in -HalfLimb .. HalfLimb - 1
InI32(x) == Wide(x).hi \in -HalfLimb .. HalfLimb - 1
CongruentToSum(r, x, y) ==
    /\ Wide(r).lo = MathSum(x, y).lo
    /\ (Wide(r).hi - MathSum(x, y).hi) % Limb = 0

HelloPrefix == <<"H", "e", "l", "l", "o", ",", " ">>
Bang == <<"!">>
HelloWorld == <<"H", "e", "l", "l", "o", ",", " ", "W", "o", "r", "l", "d", "!">>
HelloRustLine == <<"H", "e", "l", "l", "o", ",", " ", "R", "u", "s", "t", "!", NL>>
HelloPlaceholderLine ==
    <<"H", "e", "l", "l", "o", ",", " ",
      "R", "u", "s", "t", "-", "e", "q", "u", "i", "v", "a", "l", "e", "n", "t", " ",
      "p", "l", "a", "c", "e", "h", "o", "l", "d", "e", "r", "!", NL>>
Lines(out) == Len(SelectSeq(out, LAMBDA c : c = NL))

----------------------------------------------------------------------------
(* C1: for every name, hello(name) returns "Hello, " followed by the name  *)
(* unchanged followed by "!"; hello("World") is "Hello, World!".           *)
C1_HelloConcat ==
    helloRet.kind # "none" =>
        /\ helloRet.kind = "value"
        /\ helloRet.v = HelloPrefix \o name \o Bang
        /\ (name = World => helloRet.v = HelloWorld)
C1_Witness == helloRet.kind = "value" /\ name = HelloPrefix \o Bang

(* C2: when the mathematical sum of a and b is within the i32 range,       *)
(* add(a, b) returns exactly that sum; add(2, 3) is 5.                     *)
C2_AddInRange ==
    (addRet.kind # "none" /\ SumInRange(a, b)) =>
        /\ addRet.kind = "value"
        /\ addRet.v = a + b
        /\ Wide(addRet.v) = MathSum(a, b)
        /\ ((a = 2 /\ b = 3) => addRet.v = 5)
C2_Witness == addRet.kind = "value" /\ a = I32_MAX - 1 /\ b = 1

(* C3: add(a, b) and add(b, a) have the same outcome: the same value, or   *)
(* the same overflow outcome.                                              *)
C3_AddCommutes == addRet.kind # "none" => addRet = add(b, a)
C3_Witness == addRet.kind # "none" /\ a # b /\ ~SumInRange(a, b)

C5_PlaceholderLine == pc = "exited" => stdout = HelloPlaceholderLine
(* C5 amended: main calls hello with the literal "Rust", and the line the  *)
(* program writes is "Hello, Rust!" and a line terminator.                 *)
C5_RustLine ==
    /\ pc = "print" => greeting \o <<NL>> = HelloRustLine
    /\ pc \in {"return", "exited"} => stdout = HelloRustLine
C5_Witness == pc = "exited" /\ stdout # << >>

(* C6 as stated: no call of hello or add ends in a panic, whatever the     *)
(* arguments.                                                              *)
C6_NoCallFails == helloRet.kind # "panic" /\ addRet.kind # "panic"
(* C6 amended: hello returns a value for every name; add returns a value   *)
(* whenever the sum is within the i32 range or overflow checks are         *)
(* disabled, and panics exactly when overflow checks are enabled and the   *)
(* sum is outside the i32 range.                                           *)
C6_FailsOnlyOnCheckedOverflow ==
    /\ helloRet.kind \in {"none", "value"}
    /\ addRet.kind # "none" =>
          /\ addRet.kind \in {"value", "panic"}
          /\ addRet.kind = "panic" <=> (overflowChecks /\ ~SumInRange(a, b))
C6_Witness == addRet.kind = "panic" /\ helloRet.kind = "value"

(* C7: what main writes is exactly the value hello returns for main's      *)
(* literal, "Hello, <literal>!", then one line terminator; nothing is      *)
(* written before it or after it.                                          *)
C7_LineIsGreeting ==
    /\ pc \in {"start", "print"} => stdout = << >>
    /\ pc \in {"return", "exited"} =>
          /\ stdout = hello(MainLiteral).v \o <<NL>>
          /\ stdout = HelloPrefix \o MainLiteral \o Bang \o <<NL>>
C7_Witness == pc = "return" /\ stdout # << >>

(* C8: a call of hello or add changes neither standard output nor its      *)
(* arguments (nor anything of the running program); standard output        *)
(* changes only in main's println!, once, from empty.                      *)
C8_NoSideEffects ==
    [][ /\ (helloRet' # helloRet \/ addRet' # addRet) =>
              /\ stdout' = stdout
              /\ name' = name /\ a' = a /\ b' = b
              /\ pc' = pc /\ exitStatus' = exitStatus
        /\ stdout' # stdout => (pc = "print" /\ pc' = "return" /\ stdout = << >>)
      ]_vars
C8_Witness ==
    helloRet.kind = "value" /\ addRet.kind # "none" /\ pc = "exited" /\ stdout # << >>

(* C9: when the mathematical sum of a and b is outside the i32 range, add  *)
(* never returns it: with overflow checks it panics, without them it       *)
(* returns the i32 congruent to the sum modulo 2^32; any value add returns *)
(* is within the i32 range.                                                *)
C9_OverflowOutcome ==
    addRet.kind # "none" =>
        /\ ~SumInRange(a, b) =>
              IF overflowChecks
              THEN addRet.kind = "panic"
              ELSE /\ addRet.kind = "value"
                   /\ CongruentToSum(addRet.v, a, b)
                   /\ Wide(addRet.v) # MathSum(a, b)
        /\ addRet.kind = "value" => InI32(addRet.v)
C9_Witness == addRet.kind = "value" /\ ~SumInRange(a, b) /\ ~overflowChecks

(* C10: hello is injective, its result is 8 characters longer than the     *)
(* name, and the name is what remains of the result without its first 7    *)
(* characters and its last character.                                      *)
C10_HelloInjective ==
    helloRet.kind = "value" =>
        /\ Len(helloRet.v) = Len(name) + 8
        /\ SubSeq(helloRet.v, 8, Len(helloRet.v) - 1) = name
        /\ SubSeq(helloRet.v, 1, 7) = HelloPrefix
        /\ helloRet.v[Len(helloRet.v)] = "!"
        /\ \A n2 \in Names : hello(n2) = helloRet => n2 = name
C10_Witness == helloRet.kind = "value" /\ name = <<"a", "!">>

====
